---- MODULE Spec2Model ----
(***************************************************************************)
(* Factor-graph message passing of src/Node.py: the classes Node,          *)
(* Variable and Factor, their per-edge message slots and the operations    *)
(* addNeighbors, receiveMsg, sendMsg and message.                          *)
(*                                                                         *)
(* Numbers.  Every message, dissimilarity and regularisation value v of    *)
(* the program is held as the integer v * Unit.  The damping factor of a   *)
(* node is held as a numerator over DampDen, so damp is one of 0, 1/2, 1.  *)
(* Inputs are whole numbers and every message() call divides by DampDen at *)
(* most once, so with at most MaxHalvings calls in a row all values are    *)
(* multiples of 1/Unit and the arithmetic below is exact (as is the        *)
(* program's binary floating point on these dyadic values).                *)
(*                                                                         *)
(* Indices.  Python sequences are 0-based, TLA+ sequences 1-based: the     *)
(* model keeps i_index, j_index and the literal slots 1 and 2 of the code  *)
(* as they are and shifts by one at the access (At, DisAt).                *)
(***************************************************************************)
EXTENDS Integers, Sequences, FiniteSets, TLC

VARIABLES
    neighbors,      \* node -> sequence of nodes           (self.neighbors)
    in_msgs,        \* node -> sequence of numbers         (self.in_msgs)
    out_msgs,       \* node -> sequence of numbers         (self.out_msgs)
    prev_out_msgs,  \* node -> sequence of numbers         (self.prev_out_msgs)
    damp,           \* node -> damping numerator           (self.damp)
    dismatrix,      \* sequence of rows of numbers         (self.dismatrix)
    reg,            \* number                              (self.reg)
    objects,        \* the nodes that were constructed
    last,           \* the most recent call and how it ended
    calls,          \* how many calls of each operation were made so far
    phase,          \* position of the round: "compute", "send" or "done"
    visited,        \* nodes already visited in the current phase
    start           \* the message state at the start of the round

vars == <<neighbors, in_msgs, out_msgs, prev_out_msgs, damp, dismatrix, reg,
          objects, last, calls, phase, visited, start>>

----------------------------------------------------------------------------
(* Bounds of the model *)

MaxCalls  == 5      \* calls of any operation in a free run
MaxMsg    == 2      \* message() calls in any run that is not made of rounds
MaxRounds == 2      \* rounds of the two-phase schedule

MaxHalvings == IF MaxMsg > MaxRounds THEN MaxMsg ELSE MaxRounds

RECURSIVE Pow2(_)
Pow2(k) == IF k = 0 THEN 1 ELSE 2 * Pow2(k - 1)

\* damping factors are the multiples of 1/DampDen in [0, 1]
DampBits == 1
DampDen == Pow2(DampBits)

Unit == Pow2(DampBits * MaxHalvings)

----------------------------------------------------------------------------
(* The objects *)

GenericNodes == {"n0"}
Variables    == {"v1", "v2"}
Factors      == {"a1", "a2", "r", "c"}
Nodes        == GenericNodes \cup Variables \cup Factors

VALID_NODES == {"X", "IJ", "IC", "JF"}

nodetype(n) ==
    CASE n \in {"a1", "a2"} -> "IJ"
      [] n = "r"            -> "JF"
      [] n = "c"            -> "IC"
      [] OTHER              -> "X"

i_index(n) == IF n = "v1" THEN 0 ELSE 1
j_index(n) == IF n = "v1" THEN 1 ELSE 0

----------------------------------------------------------------------------
(* Sequences and numbers *)

At(s, k) == s[k + 1]

RemoveAt(s, i) == SubSeq(s, 1, i - 1) \o SubSeq(s, i + 1, Len(s))

RECURSIVE npSum(_)
npSum(s) == IF s = << >> THEN 0 ELSE Head(s) + npSum(Tail(s))

Maximum(a, b) == IF a >= b THEN a ELSE b
Minimum(a, b) == IF a <= b THEN a ELSE b

RECURSIVE max(_)
max(s) == IF Len(s) = 1 THEN s[1] ELSE Maximum(s[1], max(Tail(s)))

\* list.index: the first position holding x, 0 when there is none
index(s, x) ==
    IF \E k \in 1..Len(s) : s[k] = x
    THEN CHOOSE k \in 1..Len(s) : s[k] = x /\ \A m \in 1..(k - 1) : s[m] # x
    ELSE 0

\* (mutant) the two weights exchanged
DampedSwapped(d, prev, new) == ((DampDen - d) * prev + d * new) \div DampDen

\* damp * prev + (1 - damp) * new
Damped(d, prev, new) == (d * prev + (DampDen - d) * new) \div DampDen

M(d) == Len(d)
N(d) == IF Len(d) = 0 THEN 0 ELSE Len(d[1])
InMatrix(d, i, j) == i \in 0..(M(d) - 1) /\ j \in 0..(N(d) - 1)
DisAt(d, i, j) == d[i + 1][j + 1]

----------------------------------------------------------------------------
(* The message state of all nodes, as one record *)

Heap == [nb |-> neighbors, inm |-> in_msgs, out |-> out_msgs, prev |-> prev_out_msgs]

EmptyHeap ==
    [nb   |-> [n \in Nodes |-> << >>], inm  |-> [n \in Nodes |-> << >>],
     out  |-> [n \in Nodes |-> << >>], prev |-> [n \in Nodes |-> << >>]]

\* (mutant) prev_out_msgs gets no slot for the new edge
appendSlotNoPrev(H, self, node) ==
    [H EXCEPT !.nb[self]   = Append(@, node),
              !.inm[self]  = Append(@, 0),
              !.out[self]  = Append(@, 0)]

\* one endpoint's four appends
appendSlot(H, self, node) ==
    [H EXCEPT !.nb[self]   = Append(@, node),
              !.inm[self]  = Append(@, 0),
              !.out[self]  = Append(@, 0),
              !.prev[self] = Append(@, 0)]

addNeighbors(H, self, node) == appendSlot(appendSlot(H, self, node), node, self)

\* (mutant) an unknown sender is ignored without an error
receiveMsgSilent(H, self, sender, msg) ==
    LET idx == index(H.nb[self], sender) IN
    IF idx = 0
    THEN [H |-> H, err |-> "ok"]
    ELSE [H |-> [H EXCEPT !.inm[self][idx] = msg], err |-> "ok"]

receiveMsg(H, self, sender, msg) ==
    LET idx == index(H.nb[self], sender) IN
    IF idx = 0
    THEN [H |-> H, err |-> "ValueError"]
    ELSE [H |-> [H EXCEPT !.inm[self][idx] = msg], err |-> "ok"]

RECURSIVE sendFrom(_, _, _)
\* (mutant) every neighbor is sent the value of the first slot
sendFromFirst(H, self, i) ==
    IF i > Len(H.nb[self])
    THEN [H |-> H, err |-> "ok"]
    ELSE LET r == receiveMsg(H, H.nb[self][i], self, H.out[self][1]) IN
         IF r.err # "ok" THEN r ELSE sendFrom(r.H, self, i + 1)

sendFrom(H, self, i) ==
    IF i > Len(H.nb[self])
    THEN [H |-> H, err |-> "ok"]
    ELSE LET r == receiveMsg(H, H.nb[self][i], self, H.out[self][i]) IN
         IF r.err # "ok" THEN r ELSE sendFrom(r.H, self, i + 1)

sendMsg(H, self) == sendFrom(H, self, 1)

\* Factor.__init__: one addNeighbors call per node of varnodes, in order
RECURSIVE FactorInit(_, _, _)
FactorInit(H, self, varnodes) ==
    IF varnodes = << >> THEN H
    ELSE FactorInit(addNeighbors(H, self, Head(varnodes)), self, Tail(varnodes))

----------------------------------------------------------------------------
(* message() *)

Class(n) ==
    IF n \in Variables THEN "Variable" ELSE IF n \in Factors THEN "Factor" ELSE "Node"

\* prev_out_msg = self.out_msgs[:] ; self.prev_out_msgs = prev_out_msg
snapshot(H, self) == [H EXCEPT !.prev[self] = H.out[self]]

\* self.out_msgs[i] = damp * self.prev_out_msgs[i] + (1 - damp) * new
store(H, dmp, self, i, new) ==
    [H EXCEPT !.out[self][i] = Damped(dmp[self], H.prev[self][i], new)]

RECURSIVE VariableLoop(_, _, _, _)
\* (mutant) the slot of the target is not deleted from the sum
VariableLoopAll(H, dmp, self, i) ==
    IF i > Len(H.inm[self]) THEN [H |-> H, err |-> "ok"]
    ELSE IF i > Len(H.prev[self]) THEN [H |-> H, err |-> "IndexError"]
    ELSE LET all_msgs == H.inm[self] IN
         VariableLoop(store(H, dmp, self, i, npSum(all_msgs)), dmp, self, i + 1)

VariableLoop(H, dmp, self, i) ==
    IF i > Len(H.inm[self]) THEN [H |-> H, err |-> "ok"]
    ELSE IF i > Len(H.prev[self]) THEN [H |-> H, err |-> "IndexError"]
    ELSE LET all_msgs == RemoveAt(H.inm[self], i) IN
         VariableLoop(store(H, dmp, self, i, npSum(all_msgs)), dmp, self, i + 1)

VariableMessage(H, dmp, self) == VariableLoop(snapshot(H, self), dmp, self, 1)

IJMessage(H, dmp, d, self) ==
    LET nb == H.nb[self] IN
    IF Len(nb) = 0 THEN [H |-> H, err |-> "IndexError"]
    ELSE IF Class(nb[1]) # "Variable" THEN [H |-> H, err |-> "AttributeError"]
    ELSE IF ~InMatrix(d, i_index(nb[1]), j_index(nb[1])) THEN [H |-> H, err |-> "IndexError"]
    ELSE IF Len(H.prev[self]) = 0 THEN [H |-> H, err |-> "IndexError"]
    ELSE LET sigma == DisAt(d, i_index(nb[1]), j_index(nb[1])) IN
         [H |-> store(H, dmp, self, 1, -sigma), err |-> "ok"]

RECURSIVE JFLoop(_, _, _, _, _)
\* (mutant) the maximum is taken over all of eta, the target included
JFLoopAll(H, dmp, self, eta, i) ==
    IF i > Len(H.nb[self]) THEN [H |-> H, err |-> "ok"]
    ELSE LET temp_eta == RemoveAt(eta, i) IN
         IF i > Len(H.prev[self]) THEN [H |-> H, err |-> "IndexError"]
         ELSE IF temp_eta = << >> THEN [H |-> H, err |-> "ValueError"]
         ELSE JFLoop(store(H, dmp, self, i, -max(eta)), dmp, self, eta, i + 1)

JFLoop(H, dmp, self, eta, i) ==
    IF i > Len(H.nb[self]) THEN [H |-> H, err |-> "ok"]
    ELSE LET temp_eta == RemoveAt(eta, i) IN
         IF i > Len(H.prev[self]) THEN [H |-> H, err |-> "IndexError"]
         ELSE IF temp_eta = << >> THEN [H |-> H, err |-> "ValueError"]
         ELSE JFLoop(store(H, dmp, self, i, -max(temp_eta)), dmp, self, eta, i + 1)

\* (mutant) the neighbors' outgoing values are read instead of their incoming ones
JFMessageOut(H, dmp, d, self) ==
    LET nb == H.nb[self] IN
    IF Len(nb) = 0 THEN [H |-> H, err |-> "IndexError"]
    ELSE IF Class(nb[1]) # "Variable" THEN [H |-> H, err |-> "AttributeError"]
    ELSE LET j == j_index(nb[1]) IN
         IF \E k \in 0..(Len(nb) - 1) :
                Len(H.out[At(nb, k)]) < 2 \/ ~InMatrix(d, k, j)
         THEN [H |-> H, err |-> "IndexError"]
         ELSE LET eta == [k1 \in 1..Len(nb) |->
                             At(H.out[nb[k1]], 1) - DisAt(d, k1 - 1, j)] IN
              JFLoop(H, dmp, self, eta, 1)

\* (mutant) a single neighbor is answered with the value 0 instead of an error
JFMessageSingle(H, dmp, d, self) ==
    LET nb == H.nb[self] IN
    IF Len(nb) = 0 THEN [H |-> H, err |-> "IndexError"]
    ELSE IF Class(nb[1]) # "Variable" THEN [H |-> H, err |-> "AttributeError"]
    ELSE LET j == j_index(nb[1]) IN
         IF \E k \in 0..(Len(nb) - 1) :
                Len(H.inm[At(nb, k)]) < 2 \/ ~InMatrix(d, k, j)
         THEN [H |-> H, err |-> "IndexError"]
         ELSE LET eta == [k1 \in 1..Len(nb) |->
                             At(H.inm[nb[k1]], 1) - DisAt(d, k1 - 1, j)] IN
              IF Len(nb) = 1 THEN [H |-> store(H, dmp, self, 1, 0), err |-> "ok"]
              ELSE JFLoop(H, dmp, self, eta, 1)

JFMessage(H, dmp, d, self) ==
    LET nb == H.nb[self] IN
    IF Len(nb) = 0 THEN [H |-> H, err |-> "IndexError"]
    ELSE IF Class(nb[1]) # "Variable" THEN [H |-> H, err |-> "AttributeError"]
    ELSE LET j == j_index(nb[1]) IN
         IF \E k \in 0..(Len(nb) - 1) :
                Len(H.inm[At(nb, k)]) < 2 \/ ~InMatrix(d, k, j)
         THEN [H |-> H, err |-> "IndexError"]
         ELSE LET eta == [k1 \in 1..Len(nb) |->
                             At(H.inm[nb[k1]], 1) - DisAt(d, k1 - 1, j)] IN
              JFLoop(H, dmp, self, eta, 1)

\* numpy.delete returns a new array and leaves its argument as it is
npDelete(arr, j) == RemoveAt(arr, j)

npMaximum0(arr) == [k \in 1..Len(arr) |-> Maximum(arr[k], 0)]

RECURSIVE ICLoop(_, _, _, _, _, _)
\* (mutant) the budget term is not clamped at 0
ICLoopNoClamp(H, dmp, rg, self, dis_eta, j) ==
    IF j > Len(H.nb[self]) THEN [H |-> H, err |-> "ok"]
    ELSE IF j > Len(H.prev[self]) THEN [H |-> H, err |-> "IndexError"]
    ELSE LET temp_dis_eta == dis_eta
             sum_value    == npSum(npMaximum0(temp_dis_eta))
             alpha        == (-rg) + sum_value
         IN  ICLoop(store(H, dmp, self, j, alpha), dmp, rg, self, dis_eta, j + 1)

ICLoop(H, dmp, rg, self, dis_eta, j) ==
    IF j > Len(H.nb[self]) THEN [H |-> H, err |-> "ok"]
    ELSE IF j > Len(H.prev[self]) THEN [H |-> H, err |-> "IndexError"]
    ELSE LET temp_dis_eta == dis_eta
             discarded    == npDelete(temp_dis_eta, j)   \* result not assigned
             sum_value    == npSum(npMaximum0(temp_dis_eta))
             alpha        == Minimum(0, (-rg) + sum_value)
         IN  ICLoop(store(H, dmp, self, j, alpha), dmp, rg, self, dis_eta, j + 1)

ICMessage(H, dmp, d, rg, self) ==
    LET nb == H.nb[self] IN
    IF Len(nb) = 0 THEN [H |-> H, err |-> "IndexError"]
    ELSE IF Class(nb[1]) # "Variable" THEN [H |-> H, err |-> "AttributeError"]
    ELSE LET i == i_index(nb[1]) IN
         IF \E k \in 0..(Len(nb) - 1) :
                Len(H.inm[At(nb, k)]) < 3 \/ ~InMatrix(d, i, k)
         THEN [H |-> H, err |-> "IndexError"]
         ELSE LET dis_eta == [k1 \in 1..Len(nb) |->
                                 At(H.inm[nb[k1]], 2) - DisAt(d, i, k1 - 1)] IN
              ICLoop(H, dmp, rg, self, dis_eta, 1)

FactorMessage(H, dmp, d, rg, self) ==
    LET H1 == snapshot(H, self) IN
    IF nodetype(self) = "IJ" THEN IJMessage(H1, dmp, d, self)
    ELSE IF nodetype(self) = "JF" THEN JFMessage(H1, dmp, d, self)
    ELSE ICMessage(H1, dmp, d, rg, self)

\* the class Node has no method message
message(H, dmp, d, rg, self) ==
    IF Class(self) = "Variable" THEN VariableMessage(H, dmp, self)
    ELSE IF Class(self) = "Factor" THEN FactorMessage(H, dmp, d, rg, self)
    ELSE [H |-> H, err |-> "AttributeError"]

----------------------------------------------------------------------------
(* Inputs *)

DampNums    == 0..DampDen
DisMatrices == { << <<0, Unit>>, <<Unit, 0>> >>,
                 << <<Unit, 2 * Unit>>, <<3 * Unit, 0>> >> }
Regs        == {-Unit, 2 * Unit}
\* the value a caller hands to receiveMsg in a free run
FreeMsgs    == {2 * Unit}

NoCall == [op |-> "none", self |-> "", other |-> "", msg |-> 0, err |-> "ok"]
NoCalls == [free |-> 0, msg |-> 0, round |-> 0]

\* a free run works on a Node, a Variable and a Factor of one of the roles
FreeNodes == { {"n0", "v1", f} : f \in {"a1", "r", "c"} }

InitConfig ==
    /\ damp \in {[n \in Nodes |-> x] : x \in DampNums}
    /\ dismatrix \in DisMatrices
    /\ reg \in Regs

FreeConfig ==
    /\ damp = [n \in Nodes |-> 0]
    /\ dismatrix = << <<0, Unit>>, <<Unit, 0>> >>
    /\ reg = 2 * Unit

\* every node freshly constructed: Node.__init__
Init ==
    /\ FreeConfig
    /\ objects \in FreeNodes
    /\ neighbors = EmptyHeap.nb
    /\ in_msgs = EmptyHeap.inm
    /\ out_msgs = EmptyHeap.out
    /\ prev_out_msgs = EmptyHeap.prev
    /\ last = NoCall
    /\ calls = NoCalls
    /\ phase = "free"
    /\ visited = {}
    /\ start = EmptyHeap

SetHeap(H) ==
    /\ neighbors' = H.nb
    /\ in_msgs' = H.inm
    /\ out_msgs' = H.out
    /\ prev_out_msgs' = H.prev

AddNeighbors(a, b) ==
    /\ phase = "free"
    /\ calls.free < MaxCalls
    /\ SetHeap(addNeighbors(Heap, a, b))
    /\ last' = [op |-> "addNeighbors", self |-> a, other |-> b, msg |-> 0, err |-> "ok"]
    /\ calls' = [calls EXCEPT !.free = @ + 1]
    /\ UNCHANGED <<damp, dismatrix, reg, objects, phase, visited, start>>

ReceiveMsg(n, sender, msg) ==
    /\ phase = "free"
    /\ calls.free < MaxCalls
    /\ LET r == receiveMsg(Heap, n, sender, msg) IN
        /\ SetHeap(r.H)
        /\ last' = [op |-> "receiveMsg", self |-> n, other |-> sender, msg |-> msg,
                    err |-> r.err]
    /\ calls' = [calls EXCEPT !.free = @ + 1]
    /\ UNCHANGED <<damp, dismatrix, reg, objects, phase, visited, start>>

SendMsg(n) ==
    /\ phase = "free"
    /\ calls.free < MaxCalls
    /\ LET r == sendMsg(Heap, n) IN
        /\ SetHeap(r.H)
        /\ last' = [op |-> "sendMsg", self |-> n, other |-> "", msg |-> 0, err |-> r.err]
    /\ calls' = [calls EXCEPT !.free = @ + 1]
    /\ UNCHANGED <<damp, dismatrix, reg, objects, phase, visited, start>>

Message(n) ==
    /\ phase = "free"
    /\ calls.free < MaxCalls
    /\ calls.msg < MaxMsg
    /\ LET r == message(Heap, damp, dismatrix, reg, n) IN
        /\ SetHeap(r.H)
        /\ last' = [op |-> "message", self |-> n, other |-> "", msg |-> 0, err |-> r.err]
    /\ calls' = [calls EXCEPT !.msg = @ + 1, !.free = @ + 1]
    /\ UNCHANGED <<damp, dismatrix, reg, objects, phase, visited, start>>

Next ==
    \/ \E a \in objects, b \in objects : AddNeighbors(a, b)
    \/ \E n \in objects, sender \in objects, msg \in FreeMsgs : ReceiveMsg(n, sender, msg)
    \/ \E n \in objects : SendMsg(n)
    \/ \E n \in objects : Message(n)

Spec == Init /\ [][Next]_vars

----------------------------------------------------------------------------
(* Graphs built by the Factor constructors *)

Kinds == {"IJ", "JF", "IC"}

\* the orders in which the factors of the three roles may be constructed
Orders == { o \in UNION {[1..k -> Kinds] : k \in 0..3} :
              \A x \in 1..Len(o), y \in 1..Len(o) : x # y => o[x] # o[y] }

Take(s, k) == SubSeq(s, 1, IF k < Len(s) THEN k ELSE Len(s))

\* the factors of one role, each constructed with at most k of its variable nodes
BuildKind(H, kind, k, vlist) ==
    IF kind = "IJ"
    THEN FactorInit(FactorInit(H, "a1", Take(<<"v1">>, k)), "a2", Take(<<"v2">>, k))
    ELSE IF kind = "JF" THEN FactorInit(H, "r", Take(vlist, k))
    ELSE FactorInit(H, "c", Take(vlist, k))

RECURSIVE Build(_, _, _, _)
Build(H, order, k, vlist) ==
    IF order = << >> THEN H
    ELSE Build(BuildKind(H, Head(order), k, vlist), Tail(order), k, vlist)

VarLists == {<<"v1", "v2">>, <<"v2", "v1">>}

Graphs == { Build(EmptyHeap, o, k, vl) :
              o \in Orders, k \in 0..Cardinality(Variables), vl \in VarLists }

GraphNodes == Variables \cup Factors

\* incoming values a caller may have stored with receiveMsg, per slot position
InVecs == { <<0, 0, 0>>, <<2 * Unit, -Unit, 3 * Unit>>, <<-Unit, 3 * Unit, 2 * Unit>> }

InitMsg ==
    /\ InitConfig
    /\ \E G \in Graphs, x1 \in InVecs, x2 \in InVecs :
        /\ neighbors = G.nb
        /\ in_msgs = [G.inm EXCEPT !["v1"] = Take(x1, Len(@)), !["v2"] = Take(x2, Len(@))]
        /\ out_msgs = G.out
        /\ prev_out_msgs = G.prev
    /\ objects = Nodes
    /\ last = NoCall
    /\ calls = NoCalls
    /\ phase = "free"
    /\ visited = {}
    /\ start = EmptyHeap

NextMsg == \E n \in objects : Message(n)

SpecMsg == InitMsg /\ [][NextMsg]_vars

----------------------------------------------------------------------------
(* One round after the other: message() on every node, then sendMsg() on   *)
(* every node, the nodes of a phase in any order                           *)

InitRound ==
    /\ InitConfig
    /\ \E G \in Graphs :
        /\ neighbors = G.nb
        /\ in_msgs = G.inm
        /\ out_msgs = G.out
        /\ prev_out_msgs = G.prev
        /\ start = G
    /\ objects = GraphNodes
    /\ last = NoCall
    /\ calls = NoCalls
    /\ phase = "compute"
    /\ visited = {}

Visit(n, nextPhase) ==
    IF visited \cup {n} = objects
    THEN phase' = nextPhase /\ visited' = {}
    ELSE phase' = phase /\ visited' = visited \cup {n}

Compute(n) ==
    /\ phase = "compute"
    /\ n \notin visited
    /\ LET r == message(Heap, damp, dismatrix, reg, n) IN
        /\ SetHeap(r.H)
        /\ last' = [op |-> "message", self |-> n, other |-> "", msg |-> 0, err |-> r.err]
    /\ Visit(n, "send")
    /\ UNCHANGED <<damp, dismatrix, reg, objects, calls, start>>

Send(n) ==
    /\ phase = "send"
    /\ n \notin visited
    /\ LET r == sendMsg(Heap, n) IN
        /\ SetHeap(r.H)
        /\ last' = [op |-> "sendMsg", self |-> n, other |-> "", msg |-> 0, err |-> r.err]
    /\ Visit(n, "done")
    /\ UNCHANGED <<damp, dismatrix, reg, objects, calls, start>>

NextRound ==
    /\ phase = "done"
    /\ calls.round + 1 < MaxRounds
    /\ phase' = "compute"
    /\ start' = Heap
    /\ calls' = [calls EXCEPT !.round = @ + 1]
    /\ last' = NoCall
    /\ UNCHANGED <<neighbors, in_msgs, out_msgs, prev_out_msgs, damp, dismatrix, reg,
                   objects, visited>>

NextRun ==
    \/ \E n \in objects : Compute(n)
    \/ \E n \in objects : Send(n)
    \/ NextRound

SpecRound == InitRound /\ [][NextRun]_vars

----------------------------------------------------------------------------
(* What the claims speak of, said without the operators above *)

RECURSIVE SetSum(_, _)
SetSum(f, S) ==
    IF S = {} THEN 0
    ELSE LET x == CHOOSE y \in S : TRUE IN f[x] + SetSum(f, S \ {x})

Positive(x) == IF x > 0 THEN x ELSE 0

IsMax(m, f, S) == (\E k \in S : f[k] = m) /\ (\A k \in S : f[k] <= m)

Occurs(s, x) == \E k \in 1..Len(s) : s[k] = x

FirstAt(s, x) == CHOOSE k \in 1..Len(s) : s[k] = x /\ ~Occurs(SubSeq(s, 1, k - 1), x)

Count(s, x) == Cardinality({k \in 1..Len(s) : s[k] = x})

\* the step is a call of op: every call records itself in last
Called(op) == last'.op = op

\* the slot of neighbors[self][i] that the same addNeighbors call created:
\* between two nodes the m-th edge is the m-th occurrence on either side, and
\* a node joined to itself gets its two slots next to each other in pairs
PeerSlot(self, i) ==
    LET other == neighbors[self][i]
        rank  == Count(SubSeq(neighbors[self], 1, i), other)
        rank2 == IF other # self THEN rank
                 ELSE IF rank % 2 = 1 THEN rank + 1 ELSE rank - 1
    IN  CHOOSE k \in 1..Len(neighbors[other]) :
            /\ neighbors[other][k] = self
            /\ Count(SubSeq(neighbors[other], 1, k), self) = rank2

\* per-round arrays of the row-uniqueness and the column-budget rule
EtaOf(self) ==
    [k \in 1..Len(neighbors[self]) |->
        in_msgs[neighbors[self][k]][2]
          - dismatrix[k][j_index(neighbors[self][1]) + 1]]

DisEtaOf(self) ==
    [k \in 1..Len(neighbors[self]) |->
        in_msgs[neighbors[self][k]][3]
          - dismatrix[i_index(neighbors[self][1]) + 1][k]]

HasSlots(self, cnt) ==
    /\ neighbors[self][1] \in Variables
    /\ \A k \in 1..Len(neighbors[self]) : Len(in_msgs[neighbors[self][k]]) >= cnt

----------------------------------------------------------------------------
\* C1: a column-budget ('IC') Factor with at least 2 neighbors and damp = 0
\* has, after message(), out_msgs[j] = min(0, -reg + sum over k # j of
\* max(dis_eta[k], 0)) for every target j: the target's own term is left out.
ColumnBudgetLeaveOneOut ==
    [][ (/\ Called("message")
         /\ last'.err = "ok"
         /\ last'.self \in Factors
         /\ nodetype(last'.self) = "IC"
         /\ Len(neighbors[last'.self]) >= 2
         /\ damp[last'.self] = 0)
        => LET self == last'.self
               pos  == [k \in 1..Len(neighbors[self]) |-> Positive(DisEtaOf(self)[k])]
           IN  \A j \in 1..Len(neighbors[self]) :
                 LET sum_pos == SetSum(pos, (1..Len(neighbors[self])) \ {j}) IN
                 out_msgs'[self][j] = IF sum_pos - reg < 0 THEN sum_pos - reg ELSE 0
      ]_vars

\* C2: the four sequences of every node have the same length
SameLengths ==
    \A n \in Nodes :
        /\ Len(in_msgs[n]) = Len(neighbors[n])
        /\ Len(out_msgs[n]) = Len(neighbors[n])
        /\ Len(prev_out_msgs[n]) = Len(neighbors[n])

SameLengthsWitness ==
    /\ last.op = "message"
    /\ last.err = "ok"
    /\ Len(neighbors[last.self]) >= 2
    /\ \E i \in 1..Len(out_msgs[last.self]) : out_msgs[last.self][i] # 0

----------------------------------------------------------------------------
\* C3 as stated: a row-uniqueness ('JF') or column-budget ('IC') Factor with
\* fewer than 2 neighbors fails at message(), with 0 and with 1 neighbor.
FewNeighborsFail ==
    (/\ last.op = "message"
     /\ last.self \in Factors
     /\ nodetype(last.self) \in {"JF", "IC"}
     /\ Len(neighbors[last.self]) < 2)
    => last.err # "ok"

\* C3 (amended): a 'JF' Factor with fewer than 2 neighbors and an 'IC' Factor
\* with no neighbor fail at message(); an 'IC' Factor with exactly 1 neighbor,
\* a Variable holding at least 3 in_msgs slots whose row the dissimilarity
\* matrix has, completes message() normally.
FewNeighborsFailAmended ==
    last.op = "message" /\ last.self \in Factors =>
        /\ nodetype(last.self) = "JF" /\ Len(neighbors[last.self]) < 2
             => last.err # "ok"
        /\ nodetype(last.self) = "IC" /\ Len(neighbors[last.self]) = 0
             => last.err # "ok"
        /\ (/\ nodetype(last.self) = "IC"
            /\ Len(neighbors[last.self]) = 1
            /\ HasSlots(last.self, 3)
            /\ i_index(neighbors[last.self][1]) < Len(dismatrix)
            /\ Len(dismatrix[1]) >= 1)
             => last.err = "ok"

FewNeighborsWitness ==
    /\ last.op = "message"
    /\ last.self = "r"
    /\ Len(neighbors["r"]) = 1
    /\ Len(in_msgs[neighbors["r"][1]]) >= 2
    /\ last.err = "ValueError"

----------------------------------------------------------------------------
\* C5: message() of a Variable with n >= 1 neighbors sets prev_out_msgs to the
\* out_msgs held before the call and out_msgs[i] to
\* damp * prev_out_msgs[i] + (1 - damp) * (sum of in_msgs except slot i);
\* damp = 0 and in_msgs = [2, -1, 3] give [2, 5, 1]; in_msgs stays as it is.
VariableLeaveOneOut ==
    [][ (/\ Called("message")
         /\ last'.self \in Variables
         /\ Len(neighbors[last'.self]) >= 1)
        => LET self == last'.self
               idx  == 1..Len(neighbors[self])
           IN  /\ last'.err = "ok"
               /\ prev_out_msgs'[self] = out_msgs[self]
               /\ Len(out_msgs'[self]) = Len(neighbors[self])
               /\ \A i \in idx :
                    DampDen * out_msgs'[self][i]
                      = damp[self] * out_msgs[self][i]
                        + (DampDen - damp[self]) * SetSum(in_msgs[self], idx \ {i})
               /\ (damp[self] = 0 /\ in_msgs[self] = <<2 * Unit, -Unit, 3 * Unit>>)
                    => out_msgs'[self] = <<2 * Unit, 5 * Unit, Unit>>
               /\ in_msgs' = in_msgs
      ]_vars

VariableLeaveOneOutWitness ==
    /\ last.op = "message"
    /\ last.self \in Variables
    /\ damp[last.self] = 0
    /\ in_msgs[last.self] = <<2 * Unit, -Unit, 3 * Unit>>
    /\ out_msgs[last.self] = <<2 * Unit, 5 * Unit, Unit>>

----------------------------------------------------------------------------
\* C6: a row-uniqueness ('JF') Factor with at least 2 neighbors and damp = 0
\* has, after message(), out_msgs[i] = -max over k # i of eta[k], where
\* eta[k] = (in_msgs of neighbor k at slot 1) - dissimilarity[k, j], j the
\* column index of the first neighbor, eta taken from the state before the call.
RowUniquenessLeaveOneOut ==
    [][ (/\ Called("message")
         /\ last'.self \in Factors
         /\ nodetype(last'.self) = "JF"
         /\ Len(neighbors[last'.self]) >= 2
         /\ HasSlots(last'.self, 2)
         /\ damp[last'.self] = 0)
        => LET self == last'.self
               idx  == 1..Len(neighbors[self])
           IN  /\ last'.err = "ok"
               /\ \A i \in idx : IsMax(-out_msgs'[self][i], EtaOf(self), idx \ {i})
      ]_vars

RowUniquenessWitness ==
    /\ last.op = "message"
    /\ last.self = "r"
    /\ last.err = "ok"
    /\ damp["r"] = 0
    /\ Len(neighbors["r"]) = 2
    /\ EtaOf("r")[1] > EtaOf("r")[2]
    /\ out_msgs["r"][1] = -EtaOf("r")[2]
    /\ out_msgs["r"][2] = -EtaOf("r")[1]

----------------------------------------------------------------------------
\* C9: with damp = 1, message() of a Variable and of a Factor of every role
\* leaves out_msgs as it was, and prev_out_msgs equal to it, at every index.
FullDampingKeepsMessages ==
    [][ (/\ Called("message")
         /\ last'.self \in Variables \cup Factors
         /\ damp[last'.self] = DampDen)
        => /\ out_msgs'[last'.self] = out_msgs[last'.self]
           /\ prev_out_msgs'[last'.self] = out_msgs[last'.self]
      ]_vars

\* a row-uniqueness Factor whose undamped values are not zero
FullDampingWitness ==
    /\ last.op = "message"
    /\ last.self = "r"
    /\ last.err = "ok"
    /\ damp["r"] = DampDen
    /\ Len(neighbors["r"]) = 2
    /\ EtaOf("r")[1] # 0 /\ EtaOf("r")[2] # 0
    /\ out_msgs["r"] = <<0, 0>>

----------------------------------------------------------------------------
\* C7: receiveMsg(sender, msg) on a node that does not have sender among its
\* neighbors fails and leaves every slot of the node as it was; otherwise it
\* overwrites exactly the in_msgs slot at sender's index with msg and leaves
\* the other slots, out_msgs, prev_out_msgs and neighbors as they were.
ReceiveContract ==
    [][ Called("receiveMsg")
        => LET self   == last'.self
               sender == last'.other
           IN  /\ neighbors' = neighbors
               /\ out_msgs' = out_msgs
               /\ prev_out_msgs' = prev_out_msgs
               /\ \A n \in Nodes \ {self} : in_msgs'[n] = in_msgs[n]
               /\ IF Occurs(neighbors[self], sender)
                  THEN /\ last'.err = "ok"
                       /\ Len(in_msgs'[self]) = Len(in_msgs[self])
                       /\ \A k \in 1..Len(in_msgs[self]) :
                            in_msgs'[self][k] =
                              IF k = FirstAt(neighbors[self], sender)
                              THEN last'.msg ELSE in_msgs[self][k]
                  ELSE /\ last'.err # "ok"
                       /\ in_msgs'[self] = in_msgs[self]
      ]_vars

\* a refused message at a node that holds edges and a message already
ReceiveContractWitness ==
    /\ last.op = "receiveMsg"
    /\ last.err = "ValueError"
    /\ Len(neighbors[last.self]) >= 2
    /\ ~Occurs(neighbors[last.self], last.other)
    /\ \E k \in 1..Len(in_msgs[last.self]) : in_msgs[last.self][k] # 0

----------------------------------------------------------------------------
\* what addNeighbors leaves: both endpoints listed at each other, the old
\* slots kept, the new slots 0
EdgeAdded ==
    Called("addNeighbors")
    => LET a == last'.self
           b == last'.other
       IN  /\ Occurs(neighbors'[a], b) /\ Occurs(neighbors'[b], a)
           /\ \A n \in Nodes :
                /\ Len(neighbors'[n]) >= Len(neighbors[n])
                /\ SubSeq(neighbors'[n], 1, Len(neighbors[n])) = neighbors[n]
                /\ SubSeq(in_msgs'[n], 1, Len(in_msgs[n])) = in_msgs[n]
                /\ SubSeq(out_msgs'[n], 1, Len(out_msgs[n])) = out_msgs[n]
                /\ SubSeq(prev_out_msgs'[n], 1, Len(prev_out_msgs[n])) = prev_out_msgs[n]
                /\ \A k \in (Len(neighbors[n]) + 1)..Len(neighbors'[n]) :
                     /\ in_msgs'[n][k] = 0
                     /\ out_msgs'[n][k] = 0
                     /\ prev_out_msgs'[n][k] = 0
                /\ n \notin {a, b} => neighbors'[n] = neighbors[n]

\* what sendMsg of self delivers: the peer slot of every edge holds the value
\* sent along it, and nothing else of self or of the outgoing values moves
Delivered(self) ==
    /\ last'.err = "ok"
    /\ \A i \in 1..Len(neighbors[self]) :
         in_msgs'[neighbors[self][i]][PeerSlot(self, i)] = out_msgs[self][i]
    /\ out_msgs' = out_msgs
    /\ prev_out_msgs' = prev_out_msgs
    /\ in_msgs'[self] = in_msgs[self]

\* C8 as stated: in any topology built by addNeighbors calls, each call lists
\* the two nodes at each other with new slots 0, and after A.sendMsg() the
\* in_msgs slot of every edge of A at the neighbor holds A.out_msgs[i];
\* sendMsg changes no out_msgs, no prev_out_msgs and no in_msgs of A.
EdgeDelivery ==
    [][ /\ EdgeAdded
        /\ Called("sendMsg") => Delivered(last'.self)
      ]_vars

\* no node twice among the neighbors of self, and self not among them
SimpleAt(self) ==
    /\ ~Occurs(neighbors[self], self)
    /\ \A x \in 1..Len(neighbors[self]), y \in 1..Len(neighbors[self]) :
         x # y => neighbors[self][x] # neighbors[self][y]

\* C8 (amended): as stated, for every sendMsg of a node A that is not its own
\* neighbor and has no node twice among its neighbors; for every node
\* sendMsg changes no out_msgs and no prev_out_msgs.
EdgeDeliverySimple ==
    [][ /\ EdgeAdded
        /\ Called("sendMsg")
             => /\ out_msgs' = out_msgs
                /\ prev_out_msgs' = prev_out_msgs
                /\ SimpleAt(last'.self) => Delivered(last'.self)
      ]_vars

\* a node sends a value other than 0 to a neighbor that lists it at another
\* position than the node lists the neighbor
EdgeDeliveryWitness ==
    /\ last.op = "sendMsg"
    /\ SimpleAt(last.self)
    /\ \E i \in 1..Len(neighbors[last.self]) :
         /\ PeerSlot(last.self, i) # i
         /\ out_msgs[last.self][i] # 0
         /\ in_msgs[neighbors[last.self][i]][PeerSlot(last.self, i)] = out_msgs[last.self][i]

----------------------------------------------------------------------------
\* the round computed in one fixed order
RoundOrder == <<"v1", "v2", "a1", "a2", "r", "c">>

RECURSIVE ComputeAll(_, _)
ComputeAll(H, order) ==
    IF order = << >> THEN H
    ELSE ComputeAll(message(H, damp, dismatrix, reg, Head(order)).H, Tail(order))

RECURSIVE SendAll(_, _)
SendAll(H, order) ==
    IF order = << >> THEN H
    ELSE SendAll(sendMsg(H, Head(order)).H, Tail(order))

\* C4: when message() has run on every node before sendMsg() runs on any,
\* the state of all nodes at the end of the round does not depend on the
\* order of the nodes inside the compute phase nor inside the send phase.
RoundOrderIndependent ==
    phase = "done" => Heap = SendAll(ComputeAll(start, RoundOrder), RoundOrder)

\* the end of a second round that moved messages along every kind of edge
RoundOrderWitness ==
    /\ phase = "done"
    /\ calls.round = 1
    /\ Heap # start
    /\ \A n \in objects : \E k \in 1..Len(in_msgs[n]) : in_msgs[n][k] # 0
    /\ last.self # RoundOrder[Len(RoundOrder)]

----------------------------------------------------------------------------
\* C10: every out_msgs slot of a column-budget ('IC') Factor is <= 0 in every
\* reachable state, for damp in [0, 1] and any inputs.
ColumnBudgetNonPositive ==
    \A n \in Factors :
        nodetype(n) = "IC" => \A k \in 1..Len(out_msgs[n]) : out_msgs[n][k] <= 0

\* the clamp at work: with a negative regularisation value the budget term
\* -reg + sum is above 0 in every round, and the Factor has sent 0 twice
ColumnBudgetWitness ==
    /\ phase = "done"
    /\ calls.round = 1
    /\ reg < 0
    /\ Len(neighbors["c"]) = 2
    /\ HasSlots("c", 3)
    /\ out_msgs["c"] = <<0, 0>>
    /\ \E k \in 1..2 : in_msgs[neighbors["c"][k]][3] # 0

====
